---- MODULE Spec2Model ----
(***************************************************************************)
(* The memory manager of vhive-orchestrator (package manager,              *)
(* src/unnamed/part_001): the registry of snapshot states (inactive map,   *)
(* the two active indices), the epoll set and the polling loop.            *)
(*                                                                         *)
(* RegisterVM and AddInstance take the manager's mutex; RemoveInstance and *)
(* pollingLoop take no lock, so every access they make to shared state is  *)
(* a step of its own, and the steps of a locked operation are steps too    *)
(* (the mutex excludes only other holders of the mutex).                   *)
(*                                                                         *)
(* Identifiers the source spells in two ways are read as the one field     *)
(* they can mean: vmFdMap = activeVmFd, snapStateMap = activeFdState,      *)
(* fd (line 119) = fdInt, vmId (line 171) = vmID, e (line 156) = err,      *)
(* v.inactive = state (line 172) = v.inactive[vmID] = state, and state in  *)
(* AddInstance = v.inactive[vmID]; snapState (line 255) = state, and       *)
(* fd.Fd() of the int fd (line 246) = fd.                                  *)
(*                                                                         *)
(* Line 45 calls pollingLoop with no go statement, while the comment of    *)
(* line 39 says the loop is started in a goroutine. SpecNew takes the line *)
(* as it is written. Every other specification takes the loop as the       *)
(* goroutine the comment announces: as written, no operation of the        *)
(* manager could run beside the loop.                                      *)
(*                                                                         *)
(* Page-service goroutines (line 230) are tasks of their own; the fault    *)
(* addresses and the guest memory size are scaled down, with uint64        *)
(* arithmetic kept as arithmetic modulo 2^AddrBits.                        *)
(***************************************************************************)
EXTENDS Integers, FiniteSets, Sequences, TLC

\* ---- bounds of the model
MaxVM == 2
MaxFd == 2
MaxState == 2
NumRemovers == 1
EventSlots == 2
\* the page size and the number of pages of a guest memory file, scaled down
PageSize == 2
GuestPages == 2
\* fault addresses are 0..MaxAddr, held in words of AddrBits bits
MaxAddr == 4
\* the addresses at which guests fault while the loop runs are 0..MaxFaultAddr
MaxFaultAddr == 1
AddrBits == 4
\* page-service goroutines that may be running at one time
MaxTasks == 2

VMs == 1..MaxVM
Fds == 1..MaxFd
StateIds == 1..MaxState
Addrs == 0..MaxAddr
TaskIds == 1..MaxTasks
\* s.guestMemSize
GuestMemSize == GuestPages * PageSize
\* The callers of RegisterVM and AddInstance run one at a time (they hold the
\* mutex from their first line to their return), so one caller stands for all
\* of them; the callers of RemoveInstance, which takes no lock, are the others.
Locker == 1
Removers == 2..(1 + NumRemovers)
Callers == {Locker} \cup Removers

\* int(state.UserFaultFD.Fd()) of a file that is not open
NoFd == -1
\* the zero value of EpollEvent.Fd in a slot the kernel never filled
ZeroFd == 0
Nil == 0

VARIABLES
    inactive,       \* v.inactive: vmID -> state
    activeFdState,  \* v.activeFdState: fd -> state
    activeVmFd,     \* v.activeVmFd: vmID -> fd
    epfd,           \* v.epfd: "none", "open", "closed"
    mutex,          \* sync.Mutex: 0 when free, else the caller holding it
    heap,           \* the SnapshotState objects: vm, guestMem (mapped, len),
                    \* UserFaultFD, startAddressOnce, startAddress
    nstates,        \* number of SnapshotState objects allocated so far
    openFds,        \* kernel: userfault fds that are open
    epollSet,       \* kernel: fds registered with the epoll instance
    pending,        \* kernel: userfault fds with an unread fault message
    msg,            \* kernel: the fault address in the unread message of each fd
    pc,             \* each caller's position
    call,           \* each caller's call in progress and its locals
    ret,            \* the call that returned in the last step, if any
    cycle,          \* per vmID: progress through Register;Add;Remove;Register;Add
    loopPc,         \* pollingLoop's position ("fatal": it called log.Fatalf)
    events,         \* pollingLoop's events array
    evi,            \* pollingLoop's index into events
    nevents,        \* pollingLoop's nevents, the result of the last epoll_wait
    address,        \* pollingLoop's address, the fault address it read last
    tasks,          \* the page-service goroutines started by line 230
    quit,           \* a value is available on quitCh
    ready,          \* readyCh is closed
    crashed,        \* log.Fatalf ended the process
    newPc           \* NewMemoryManager's position: "call45", "recv47", "returned"

registry == <<inactive, activeFdState, activeVmFd>>
kernel == <<openFds, epollSet, pending, msg>>
callers == <<pc, call, cycle, mutex>>
loopv == <<loopPc, events, evi, nevents, address, tasks, ready, crashed, epfd, newPc>>
vars == <<inactive, activeFdState, activeVmFd, epfd, mutex, heap, nstates, openFds,
          epollSet, pending, msg, pc, call, ret, cycle, loopPc, events, evi, nevents,
          address, tasks, quit, ready, crashed, newPc>>

\* ---- map helpers (Go maps: a function on the set of present keys)
Has(m, k) == k \in DOMAIN m
Put(m, k, x) == [y \in DOMAIN m \cup {k} |-> IF y = k THEN x ELSE m[y]]
Del(m, k) == [y \in DOMAIN m \ {k} |-> m[y]]
EmptyMap == [y \in {} |-> Nil]

\* ---- return values
ProtocolErrors == {"NotRegistered", "AlreadyRegistered", "AlreadyActive", "NoFd", "NoState"}
KernelErrors == {"MapError", "EpollError", "UnmapError"}

NoCall == [op |-> "none", vm |-> 0, st |-> Nil, fd |-> NoFd, fail |-> "none",
           preInactive |-> FALSE, preActive |-> FALSE, alone |-> TRUE]
NoRet == [caller |-> 0, res |-> "none", call |-> NoCall]

\* a page-service goroutine: its arguments fd and address, its position, and
\* its locals: the state it found, offset and dst
NoTask == [pc |-> "none", fd |-> NoFd, address |-> 0, st |-> Nil, offset |-> 0, dst |-> 0]

\* ---- the scenario Register;Add;Remove;Register;Add of one vmID: the number
\* of its calls that have succeeded so far, made one after the other and
\* overlapping no other call, and whether the next one was refused
NoCycle == [done |-> 0, status |-> "running"]
ScenOp(k) == IF k \in {1, 4} THEN "Register" ELSE IF k \in {2, 5} THEN "Add" ELSE "Remove"
CycleNext(c, op, alone, r) ==
    IF c.status # "running" THEN c
    ELSE IF c.done < 5 /\ alone /\ op = ScenOp(c.done + 1)
         THEN IF r = "ok" THEN [c EXCEPT !.done = c.done + 1]
              ELSE IF r \in ProtocolErrors THEN [c EXCEPT !.status = "refused"]
              ELSE [done |-> 0, status |-> "broken"]
         ELSE [done |-> 0, status |-> "broken"]

Idle(t) == pc[t] = "idle"
\* the manager is in its callers' hands
Usable == newPc = "returned" /\ ~crashed

\* the record of a call by t that starts now
NewCall(t, op, v, st) ==
    [op |-> op, vm |-> v, st |-> st, fd |-> NoFd, fail |-> "none",
     preInactive |-> Has(inactive, v),
     preActive |-> Has(activeVmFd, v),
     alone |-> \A w \in Callers \ {t} : Idle(w)]

\* A caller starts a call: its locals, the status of vm at that moment, and
\* whether it runs alone; a call in progress elsewhere is not alone any more.
Begin(t, op, v, st, next) ==
    /\ pc' = [pc EXCEPT ![t] = next]
    /\ call' = [u \in Callers |->
                  IF u = t THEN NewCall(t, op, v, st)
                  ELSE IF Idle(u) THEN call[u] ELSE [call[u] EXCEPT !.alone = FALSE]]
    /\ ret' = NoRet
    /\ UNCHANGED cycle

\* A step inside a call, which leaves its locals as they are.
Step(t, next) ==
    /\ pc' = [pc EXCEPT ![t] = next]
    /\ ret' = NoRet
    /\ UNCHANGED <<call, cycle>>

\* A step inside a call, which sets its locals to c.
StepWith(t, next, c) ==
    /\ pc' = [pc EXCEPT ![t] = next]
    /\ call' = [call EXCEPT ![t] = c]
    /\ ret' = NoRet
    /\ UNCHANGED cycle

\* The call of caller t, with locals c, returns r.
Return(t, c, r) ==
    /\ pc' = [pc EXCEPT ![t] = "idle"]
    /\ call' = [call EXCEPT ![t] = NoCall]
    /\ ret' = [caller |-> t, res |-> r, call |-> c]
    /\ cycle' = [cycle EXCEPT ![c.vm] = CycleNext(cycle[c.vm], c.op, c.alone, r)]

\* The same, for a call that returns in the step that starts it.
BeginReturn(t, op, v, r) ==
    /\ call' = [u \in Callers |->
                  IF Idle(u) THEN call[u] ELSE [call[u] EXCEPT !.alone = FALSE]]
    /\ ret' = [caller |-> t, res |-> r, call |-> NewCall(t, op, v, Nil)]
    /\ cycle' = [cycle EXCEPT ![v] =
                    CycleNext(cycle[v], op, \A w \in Callers \ {t} : Idle(w), r)]
    /\ UNCHANGED pc

\* ---- kernel operations
\* close(fd): the fd leaves the epoll set and its unread messages go with it
CloseFd(s) ==
    IF heap[s].open
    THEN /\ openFds' = openFds \ {heap[s].fd}
         /\ epollSet' = epollSet \ {heap[s].fd}
         /\ pending' = pending \ {heap[s].fd}
         /\ msg' = [msg EXCEPT ![heap[s].fd] = 0]
         /\ heap' = [heap EXCEPT ![s].open = FALSE]
    ELSE UNCHANGED <<openFds, epollSet, pending, msg, heap>>

EpollAddOk(f) == epfd = "open" /\ f \in openFds /\ f \notin epollSet
EpollDelOk(f) == epfd = "open" /\ f \in epollSet

\* RegisterVM without the check of lines 67-70
RegisterVM_Check_NoActiveCheck(t, v) ==
    /\ Usable /\ Idle(t) /\ mutex = 0
    /\ IF Has(inactive, v)
       THEN BeginReturn(t, "Register", v, "AlreadyRegistered") /\ UNCHANGED mutex
       ELSE /\ nstates < MaxState
            /\ Begin(t, "Register", v, Nil, "reg72")
            /\ mutex' = t
    /\ UNCHANGED <<registry, kernel, heap, nstates, loopv, quit>>

\* ---- RegisterVM (lines 54-77)
\* lines 62-70: the two rejections, under the mutex
RegisterVM_Check(t, v) ==
    /\ Usable /\ Idle(t) /\ mutex = 0
    /\ IF Has(inactive, v)
       THEN BeginReturn(t, "Register", v, "AlreadyRegistered") /\ UNCHANGED mutex
       ELSE IF Has(activeVmFd, v)
       THEN BeginReturn(t, "Register", v, "AlreadyActive") /\ UNCHANGED mutex
       ELSE /\ nstates < MaxState
            /\ Begin(t, "Register", v, Nil, "reg72")
            /\ mutex' = t
    /\ UNCHANGED <<registry, kernel, heap, nstates, loopv, quit>>

\* lines 72-76
RegisterVM_Insert(t) ==
    /\ ~crashed /\ pc[t] = "reg72"
    /\ nstates' = nstates + 1
    /\ heap' = [heap EXCEPT ![nstates + 1] =
                  [vm |-> call[t].vm, mapped |-> FALSE, len |-> 0, fd |-> NoFd,
                   open |-> FALSE, once |-> FALSE, startAddress |-> 0]]
    /\ inactive' = Put(inactive, call[t].vm, nstates + 1)
    /\ Return(t, call[t], "ok")
    /\ mutex' = 0
    /\ UNCHANGED <<activeFdState, activeVmFd, kernel, loopv, quit>>

\* ---- AddInstance (lines 80-125)
\* lines 93-101: the two rejections, under the mutex
AddInstance_Check(t, v) ==
    /\ Usable /\ Idle(t) /\ mutex = 0
    /\ IF ~Has(inactive, v)
       THEN BeginReturn(t, "Add", v, "NotRegistered") /\ UNCHANGED mutex
       ELSE IF Has(activeVmFd, v)
       THEN BeginReturn(t, "Add", v, "AlreadyActive") /\ UNCHANGED mutex
       ELSE /\ Begin(t, "Add", v, inactive[v], "add103")
            /\ mutex' = t
    /\ UNCHANGED <<registry, kernel, heap, nstates, loopv, quit>>

\* lines 303-317: open and mmap the guest memory file; a failing open leaves
\* s.guestMem as it was, a failing mmap sets it to nil
MapOutcomes == {"ok", "open", "mmap"}
mapGuestMemory(s, r) ==
    heap' = IF r = "ok" THEN [heap EXCEPT ![s].mapped = TRUE, ![s].len = GuestMemSize]
            ELSE IF r = "mmap" THEN [heap EXCEPT ![s].len = 0]
            ELSE heap

\* lines 103-106
AddInstance_Map(t) ==
    /\ ~crashed /\ pc[t] = "add103"
    /\ \E r \in MapOutcomes :
         /\ mapGuestMemory(call[t].st, r)
         /\ IF r = "ok"
            THEN Step(t, "add108") /\ UNCHANGED mutex
            ELSE /\ Return(t, [call[t] EXCEPT !.fail = "map"], "MapError")
                 /\ mutex' = 0
    /\ UNCHANGED <<registry, kernel, nstates, loopv, quit>>

\* lines 108-110: the hypervisor hands over a userfault fd, a number that no
\* open fd has; fdInt is its number
AddInstance_GetUFFD(t) ==
    /\ ~crashed /\ pc[t] = "add108"
    /\ \E f \in Fds \ openFds :
         /\ heap' = [heap EXCEPT ![call[t].st].fd = f, ![call[t].st].open = TRUE]
         /\ openFds' = openFds \cup {f}
         /\ StepWith(t, "add112", [call[t] EXCEPT !.fd = f])
    /\ UNCHANGED <<registry, epollSet, pending, msg, nstates, mutex, loopv, quit>>

\* int(f.Fd()) of the state's UserFaultFD
Fd(s) == IF heap[s].open THEN heap[s].fd ELSE NoFd

\* line 108 when the hypervisor hands over no fd: getUFFD returns nothing to
\* AddInstance, which goes on with the fd the state holds
AddInstance_GetUFFDFail(t) ==
    /\ ~crashed /\ pc[t] = "add108"
    /\ StepWith(t, "add112", [call[t] EXCEPT !.fd = Fd(call[t].st), !.fail = "uffd"])
    /\ UNCHANGED <<registry, kernel, heap, nstates, mutex, loopv, quit>>

\* line 112
AddInstance_DeleteInactive(t) ==
    /\ ~crashed /\ pc[t] = "add112"
    /\ inactive' = Del(inactive, call[t].vm)
    /\ Step(t, "add113")
    /\ UNCHANGED <<activeFdState, activeVmFd, kernel, heap, nstates, mutex, loopv,
                   quit>>

\* line 113
AddInstance_SetVmFd(t) ==
    /\ ~crashed /\ pc[t] = "add113"
    /\ activeVmFd' = Put(activeVmFd, call[t].vm, call[t].fd)
    /\ Step(t, "add114")
    /\ UNCHANGED <<inactive, activeFdState, kernel, heap, nstates, mutex, loopv,
                   quit>>

\* line 114
AddInstance_SetFdState(t) ==
    /\ ~crashed /\ pc[t] = "add114"
    /\ activeFdState' = Put(activeFdState, call[t].fd, call[t].st)
    /\ Step(t, "add119")
    /\ UNCHANGED <<inactive, activeVmFd, kernel, heap, nstates, mutex, loopv,
                   quit>>

\* lines 116-124: EPOLL_CTL_ADD; on an error the call returns it as it is
AddInstance_EpollAdd(t) ==
    /\ ~crashed /\ pc[t] = "add119"
    /\ \E ok \in {TRUE, FALSE} :
         /\ ok => EpollAddOk(call[t].fd)
         /\ IF ok
            THEN epollSet' = epollSet \cup {call[t].fd} /\ Return(t, call[t], "ok")
            ELSE UNCHANGED epollSet /\ Return(t, call[t], "EpollError")
    /\ mutex' = 0
    /\ UNCHANGED <<registry, openFds, pending, msg, heap, nstates, loopv, quit>>

\* ---- RemoveInstance (lines 128-175): no lock is taken
\* lines 139-142
RemoveInstance_CheckInactive(t, v) ==
    /\ Usable /\ Idle(t)
    /\ IF ~Has(inactive, v)
       THEN BeginReturn(t, "Remove", v, "NotRegistered")
       ELSE Begin(t, "Remove", v, Nil, "rem144")
    /\ UNCHANGED <<registry, kernel, heap, nstates, mutex, loopv, quit>>

\* lines 144-148
RemoveInstance_FindFd(t) ==
    /\ ~crashed /\ pc[t] = "rem144"
    /\ IF Has(activeVmFd, call[t].vm)
       THEN StepWith(t, "rem150", [call[t] EXCEPT !.fd = activeVmFd[call[t].vm]])
       ELSE Return(t, call[t], "NoFd")
    /\ UNCHANGED <<registry, kernel, heap, nstates, mutex, loopv, quit>>

\* lines 150-154
RemoveInstance_FindState(t) ==
    /\ ~crashed /\ pc[t] = "rem150"
    /\ IF Has(activeFdState, call[t].fd)
       THEN StepWith(t, "rem156", [call[t] EXCEPT !.st = activeFdState[call[t].fd]])
       ELSE Return(t, call[t], "NoState")
    /\ UNCHANGED <<registry, kernel, heap, nstates, mutex, loopv, quit>>

\* lines 156-159: EPOLL_CTL_DEL
RemoveInstance_EpollDel(t) ==
    /\ ~crashed /\ pc[t] = "rem156"
    /\ \E ok \in {TRUE, FALSE} :
         /\ ok => EpollDelOk(call[t].fd)
         /\ IF ok
            THEN epollSet' = epollSet \ {call[t].fd} /\ Step(t, "rem163")
            ELSE UNCHANGED epollSet /\ Return(t, call[t], "EpollError")
    /\ UNCHANGED <<registry, openFds, pending, msg, heap, nstates, mutex, loopv, quit>>

\* lines 319-326: munmap; a region that is not mapped cannot be unmapped, and
\* the slice s.guestMem keeps its length
unmapGuestMemory(s, ok) ==
    heap' = IF ok THEN [heap EXCEPT ![s].mapped = FALSE] ELSE heap

\* lines 163-166
RemoveInstance_Unmap(t) ==
    /\ ~crashed /\ pc[t] = "rem163"
    /\ \E ok \in {TRUE, FALSE} :
         /\ ok => heap[call[t].st].mapped
         /\ unmapGuestMemory(call[t].st, ok)
         /\ IF ok
            THEN Step(t, "rem168")
            ELSE Return(t, call[t], "UnmapError")
    /\ UNCHANGED <<registry, kernel, nstates, mutex, loopv, quit>>

\* line 168
RemoveInstance_Close(t) ==
    /\ ~crashed /\ pc[t] = "rem168"
    /\ CloseFd(call[t].st)
    /\ Step(t, "rem170")
    /\ UNCHANGED <<registry, nstates, mutex, loopv, quit>>

\* line 170
RemoveInstance_DeleteFdState(t) ==
    /\ ~crashed /\ pc[t] = "rem170"
    /\ activeFdState' = Del(activeFdState, call[t].fd)
    /\ Step(t, "rem171")
    /\ UNCHANGED <<inactive, activeVmFd, kernel, heap, nstates, mutex, loopv,
                   quit>>

\* line 171
RemoveInstance_DeleteVmFd(t) ==
    /\ ~crashed /\ pc[t] = "rem171"
    /\ activeVmFd' = Del(activeVmFd, call[t].vm)
    /\ Step(t, "rem172")
    /\ UNCHANGED <<inactive, activeFdState, kernel, heap, nstates, mutex, loopv,
                   quit>>

\* lines 172-174
RemoveInstance_SetInactive(t) ==
    /\ ~crashed /\ pc[t] = "rem172"
    /\ inactive' = Put(inactive, call[t].vm, call[t].st)
    /\ Return(t, call[t], "ok")
    /\ UNCHANGED <<activeFdState, activeVmFd, kernel, heap, nstates, mutex, loopv, quit>>

\* ---- pollingLoop (lines 183-234)
\* lines 191-198: epoll_create1, then close(readyCh)
pollingLoop_Create ==
    /\ ~crashed /\ loopPc = "create"
    /\ \E ok \in {TRUE, FALSE} :
         IF ok
         THEN epfd' = "open" /\ ready' = TRUE /\ loopPc' = "select" /\ UNCHANGED crashed
         ELSE crashed' = TRUE /\ loopPc' = "fatal" /\ UNCHANGED <<epfd, ready>>
    /\ ret' = NoRet
    /\ UNCHANGED <<registry, kernel, heap, nstates, callers, newPc, events, evi, nevents,
                   address, tasks, quit>>

\* lines 201-205 and the deferred close of line 196
pollingLoop_Select ==
    /\ ~crashed /\ loopPc = "select"
    /\ IF quit
       THEN loopPc' = "exited" /\ epfd' = "closed" /\ epollSet' = {}
       ELSE loopPc' = "wait" /\ UNCHANGED <<epfd, epollSet>>
    /\ ret' = NoRet
    /\ UNCHANGED <<registry, openFds, pending, msg, heap, nstates, callers, newPc, events, evi,
                   nevents, address, tasks, quit, ready, crashed>>

\* the events array after epoll_wait reported the fds of S in its first slots
FillEvents(ev, S) ==
    [i \in 1..EventSlots |->
        IF i <= Cardinality(S)
        THEN CHOOSE f \in S : Cardinality({g \in S : g < f}) = i - 1
        ELSE ev[i]]

\* lines 206-213: epoll_wait with no timeout returns once some registered fd is
\* readable, with at least one and at most len(events) events
pollingLoop_Wait ==
    /\ ~crashed /\ loopPc = "wait"
    /\ \E S \in SUBSET (epollSet \cap pending) :
         /\ S # {} /\ Cardinality(S) <= EventSlots
         /\ events' = FillEvents(events, S)
         /\ nevents' = Cardinality(S)
    /\ evi' = 1
    /\ loopPc' = "iter"
    /\ ret' = NoRet
    /\ UNCHANGED <<registry, kernel, heap, nstates, callers, newPc, address, tasks, quit, ready,
                   crashed, epfd>>

\* lines 215-220: for _, event := range events, and the lookup of its fd;
\* nevents is not read again once the range is over
pollingLoop_Lookup ==
    /\ ~crashed /\ loopPc = "iter"
    /\ IF evi > EventSlots
       THEN loopPc' = "select" /\ nevents' = 0 /\ UNCHANGED crashed
       ELSE IF Has(activeFdState, events[evi])
       THEN loopPc' = "read" /\ UNCHANGED <<nevents, crashed>>
       ELSE crashed' = TRUE /\ loopPc' = "fatal" /\ UNCHANGED nevents
    /\ ret' = NoRet
    /\ UNCHANGED <<registry, kernel, heap, nstates, callers, newPc, events, evi, address, tasks,
                   quit, ready, epfd>>

\* lines 222, 266-277: read one fault message from the fd
extractPageFaultAddress(f) ==
    IF f \in pending
    THEN /\ address' = msg[f]
         /\ pending' = pending \ {f}
         /\ msg' = [msg EXCEPT ![f] = 0]
         /\ UNCHANGED crashed
    ELSE crashed' = TRUE /\ UNCHANGED <<address, pending, msg>>

pollingLoop_Read ==
    /\ ~crashed /\ loopPc = "read"
    /\ extractPageFaultAddress(events[evi])
    /\ loopPc' = IF crashed' THEN "fatal" ELSE "dispatch"
    /\ ret' = NoRet
    /\ UNCHANGED <<registry, openFds, epollSet, heap, nstates, callers, newPc, events, evi,
                   nevents, tasks, quit, ready, epfd>>

\* lines 279-284
getSnapshotState(f) == IF Has(activeFdState, f) THEN activeFdState[f] ELSE Nil

\* lines 226-228 run on every fault, with no sync.Once around them
LatchStartAddress_NoOnce(s, a) ==
    [heap EXCEPT ![s].once = TRUE, ![s].startAddress = a]

\* lines 225-229: startAddressOnce.Do
LatchStartAddress(s, a) ==
    IF heap[s].once THEN heap
    ELSE [heap EXCEPT ![s].once = TRUE, ![s].startAddress = a]

\* line 230: go v.servePageFault(fd, address)
Go(f, a) ==
    \E i \in TaskIds :
        /\ tasks[i] = NoTask
        /\ \A j \in TaskIds : j < i => tasks[j] # NoTask
        /\ tasks' = [tasks EXCEPT ![i] = [NoTask EXCEPT !.pc = "serve255", !.fd = f,
                                                        !.address = a]]

\* lines 224-230: the second lookup, the latch of the start address, and the
\* start of the page-service goroutine; address is not read again afterwards
pollingLoop_Dispatch ==
    /\ ~crashed /\ loopPc = "dispatch"
    /\ LET s == getSnapshotState(events[evi]) IN
         IF s # Nil
         THEN /\ heap' = LatchStartAddress(s, address)
              /\ Go(events[evi], address)
              /\ address' = 0
              /\ evi' = evi + 1 /\ loopPc' = "iter" /\ UNCHANGED crashed
         ELSE crashed' = TRUE /\ loopPc' = "fatal" /\ UNCHANGED <<heap, tasks, address, evi>>
    /\ ret' = NoRet
    /\ UNCHANGED <<registry, kernel, nstates, callers, newPc, events, nevents, quit, ready, epfd>>

pollingLoop ==
    \/ pollingLoop_Create
    \/ pollingLoop_Select
    \/ pollingLoop_Wait
    \/ pollingLoop_Lookup
    \/ pollingLoop_Read
    \/ pollingLoop_Dispatch

\* ---- servePageFault (lines 254-263), one goroutine per fault read
\* uint64 arithmetic
Sub(a, b) == (a - b + 2 ^ AddrBits) % (2 ^ AddrBits)
\* address & ^(pageSize - 1)
PageOf(a) == a - (a % PageSize)

\* lines 255-260: the state of the fd, offset, the bounds check of
\* state.guestMem[offset] (a runtime panic ends the process), and dst
servePageFault_Compute(i) ==
    /\ ~crashed /\ tasks[i].pc = "serve255"
    /\ LET s == getSnapshotState(tasks[i].fd)
           offset == Sub(tasks[i].address, heap[s].startAddress)
       IN  IF s # Nil /\ offset < heap[s].len
           THEN /\ tasks' = [tasks EXCEPT ![i].pc = "serve262", ![i].st = s,
                                          ![i].offset = offset,
                                          ![i].dst = PageOf(tasks[i].address)]
                /\ UNCHANGED crashed
           ELSE crashed' = TRUE /\ UNCHANGED tasks
    /\ ret' = NoRet
    /\ UNCHANGED <<registry, kernel, heap, nstates, callers, newPc, loopPc, events, evi, nevents,
                   address, ready, epfd, quit>>

\* lines 262, 237-252: UFFDIO_COPY of one page from &guestMem[offset] to dst
\* on fd; its error is dropped, and the goroutine ends
installRegion(i) ==
    tasks' = [tasks EXCEPT ![i] = NoTask]

servePageFault_Install(i) ==
    /\ ~crashed /\ tasks[i].pc = "serve262"
    /\ installRegion(i)
    /\ ret' = NoRet
    /\ UNCHANGED <<registry, kernel, heap, nstates, callers, newPc, loopPc, events, evi, nevents,
                   address, ready, crashed, epfd, quit>>

servePageFault ==
    \E i \in TaskIds : servePageFault_Compute(i) \/ servePageFault_Install(i)

\* ---- NewMemoryManager (lines 30-50)
\* line 45 as it is written, v.pollingLoop(readyCh, quitCh) with no go: the
\* call returns when pollingLoop returns
NewMemoryManager_Call ==
    /\ ~crashed /\ newPc = "call45" /\ loopPc = "exited"
    /\ newPc' = "recv47"
    /\ ret' = NoRet
    /\ UNCHANGED <<registry, kernel, heap, nstates, callers, loopPc, events, evi, nevents,
                   address, tasks, ready, crashed, epfd, quit>>

\* lines 47-49: <-readyCh, then return v
NewMemoryManager_Return ==
    /\ ~crashed /\ newPc = "recv47" /\ ready
    /\ newPc' = "returned"
    /\ ret' = NoRet
    /\ UNCHANGED <<registry, kernel, heap, nstates, callers, loopPc, events, evi, nevents,
                   address, tasks, ready, crashed, epfd, quit>>

NewMemoryManager == NewMemoryManager_Call \/ NewMemoryManager_Return

\* ---- the environment
\* the owner of quitCh sends the quit signal
SendQuit ==
    /\ ~crashed /\ ~quit
    /\ quit' = TRUE
    /\ ret' = NoRet
    /\ UNCHANGED <<registry, kernel, heap, nstates, callers, loopv>>

\* a guest touches a page that is not there: a message waits on its userfault fd
Fault(f) ==
    /\ ~crashed /\ f \in openFds \ pending
    /\ pending' = pending \cup {f}
    /\ \E a \in 0..MaxFaultAddr : msg' = [msg EXCEPT ![f] = a]
    /\ ret' = NoRet
    /\ UNCHANGED <<registry, openFds, epollSet, heap, nstates, callers, loopv, quit>>

\* ---- the system
\* lines 33-43: the maps are empty, nothing runs yet
Constructed ==
    /\ inactive = EmptyMap
    /\ activeFdState = EmptyMap
    /\ activeVmFd = EmptyMap
    /\ epfd = "none"
    /\ mutex = 0
    /\ heap = [s \in StateIds |->
                 [vm |-> 0, mapped |-> FALSE, len |-> 0, fd |-> NoFd, open |-> FALSE,
                  once |-> FALSE, startAddress |-> 0]]
    /\ nstates = 0
    /\ openFds = {}
    /\ epollSet = {}
    /\ pending = {}
    /\ msg = [f \in Fds |-> 0]
    /\ pc = [t \in Callers |-> "idle"]
    /\ call = [t \in Callers |-> NoCall]
    /\ ret = NoRet
    /\ cycle = [v \in VMs |-> NoCycle]
    /\ loopPc = "create"
    /\ events = [i \in 1..EventSlots |-> ZeroFd]
    /\ evi = 1
    /\ nevents = 0
    /\ address = 0
    /\ tasks = [i \in TaskIds |-> NoTask]
    /\ quit = FALSE
    /\ ready = FALSE
    /\ crashed = FALSE

\* The loop runs as the goroutine that the comment of line 39 announces:
\* NewMemoryManager has started it and waits for readyCh.
Init == Constructed /\ newPc = "recv47"

\* Line 45 as it is written: NewMemoryManager is inside the call of pollingLoop.
InitNew == Constructed /\ newPc = "call45"

RegisterVM(t) ==
    \/ \E v \in VMs : RegisterVM_Check(t, v)
    \/ RegisterVM_Insert(t)

AddInstance(t) ==
    \/ \E v \in VMs : AddInstance_Check(t, v)
    \/ AddInstance_Map(t)
    \/ AddInstance_GetUFFD(t)
    \/ AddInstance_DeleteInactive(t)
    \/ AddInstance_SetVmFd(t)
    \/ AddInstance_SetFdState(t)
    \/ AddInstance_EpollAdd(t)

RemoveInstance(t) ==
    \/ \E v \in VMs : RemoveInstance_CheckInactive(t, v)
    \/ RemoveInstance_FindFd(t)
    \/ RemoveInstance_FindState(t)
    \/ RemoveInstance_EpollDel(t)
    \/ RemoveInstance_Unmap(t)
    \/ RemoveInstance_Close(t)
    \/ RemoveInstance_DeleteFdState(t)
    \/ RemoveInstance_DeleteVmFd(t)
    \/ RemoveInstance_SetInactive(t)

\* The manager's operations and the loop's life cycle, with no guest faulting.
Next ==
    \/ RegisterVM(Locker)
    \/ AddInstance(Locker)
    \/ \E t \in Removers : RemoveInstance(t)
    \/ pollingLoop_Create
    \/ pollingLoop_Select
    \/ NewMemoryManager_Return
    \/ SendQuit

Spec == Init /\ [][Next]_vars

\* The manager when RegisterVM(v) and AddInstance(v) have returned for the
\* vms 1..n, each with a state and a userfault fd of its own; the start address
\* of vm v is latched at base[v] if latched[v].
Activated(n, latched, base) ==
    /\ inactive = EmptyMap
    /\ activeFdState = [f \in 1..n |-> f]
    /\ activeVmFd = [v \in 1..n |-> v]
    /\ epfd = "open"
    /\ mutex = 0
    /\ heap = [s \in StateIds |->
                 IF s <= n
                 THEN [vm |-> s, mapped |-> TRUE, len |-> GuestMemSize, fd |-> s,
                       open |-> TRUE, once |-> latched[s], startAddress |-> base[s]]
                 ELSE [vm |-> 0, mapped |-> FALSE, len |-> 0, fd |-> NoFd,
                       open |-> FALSE, once |-> FALSE, startAddress |-> 0]]
    /\ nstates = n
    /\ openFds = 1..n
    /\ epollSet = 1..n
    /\ quit = FALSE
    /\ ready = TRUE
    /\ crashed = FALSE
    /\ newPc = "returned"

\* what AddInstance(v) returned when it made v active
AddReturned(v, alone) ==
    [caller |-> Locker, res |-> "ok",
     call |-> [NoCall EXCEPT !.op = "Add", !.vm = v, !.st = v, !.fd = v,
                             !.preInactive = TRUE, !.alone = alone]]

\* no call is in progress, the calls above are all that have been made, and
\* AddInstance(n) was the last of them
NoCalls(n) ==
    /\ pc = [t \in Callers |-> "idle"]
    /\ call = [t \in Callers |-> NoCall]
    /\ ret = AddReturned(n, TRUE)
    /\ cycle = [v \in VMs |-> IF v <= n THEN [done |-> 2, status |-> "running"]
                              ELSE NoCycle]

\* the loop is about to look at quitCh for the first time
LoopStarts ==
    /\ pending = {}
    /\ msg = [f \in Fds |-> 0]
    /\ loopPc = "select"
    /\ events = [i \in 1..EventSlots |-> ZeroFd]
    /\ evi = 1
    /\ nevents = 0
    /\ address = 0
    /\ tasks = [i \in TaskIds |-> NoTask]

InitLoop ==
    /\ \E n \in VMs :
         /\ Activated(n, [s \in StateIds |-> FALSE], [s \in StateIds |-> 0])
         /\ NoCalls(n)
    /\ LoopStarts

\* The polling loop and its page-service goroutines, with guests faulting.
\* The loop and the goroutines are scheduled: each takes its next step when
\* it has one.
NextLoop ==
    \/ pollingLoop_Select
    \/ pollingLoop_Wait
    \/ pollingLoop_Lookup
    \/ pollingLoop_Read
    \/ pollingLoop_Dispatch
    \/ servePageFault
    \/ SendQuit
    \/ \E f \in Fds : Fault(f)

\* servePageFault on its inputs: every vm is active, the loop is back in
\* epoll_wait, the start address of vm 1 is latched at b, and two page-service
\* goroutines have been started on its fd, one with the fault address a1 and
\* one with a2.
InitServe ==
    /\ \E b \in Addrs :
         Activated(MaxVM, [s \in StateIds |-> s = 1],
                   [s \in StateIds |-> IF s = 1 THEN b ELSE 0])
    /\ NoCalls(MaxVM)
    /\ pending = {}
    /\ msg = [f \in Fds |-> 0]
    /\ loopPc = "wait"
    /\ events = [i \in 1..EventSlots |-> IF i <= MaxVM THEN i ELSE ZeroFd]
    /\ evi = 1
    /\ nevents = 0
    /\ address = 0
    /\ \E a1 \in Addrs, a2 \in Addrs :
         tasks = [i \in TaskIds |->
                    IF i > 2 THEN NoTask
                    ELSE [NoTask EXCEPT !.pc = "serve255", !.fd = 1,
                                        !.address = IF i = 1 THEN a1 ELSE a2]]

NextServe == servePageFault

SpecServe == InitServe /\ [][NextServe]_vars

\* RemoveInstance beside the loop. Every vm is active, and one caller is inside
\* RemoveInstance(1): it read v.inactive at line 139 while AddInstance(1) had
\* not yet deleted the entry (the interleaving of C1), and is at line 144.
InitRace ==
    /\ Activated(MaxVM, [s \in StateIds |-> FALSE], [s \in StateIds |-> 0])
    /\ \E r \in Removers :
         /\ pc = [t \in Callers |-> IF t = r THEN "rem144" ELSE "idle"]
         /\ call = [t \in Callers |->
                      IF t = r
                      THEN [NoCall EXCEPT !.op = "Remove", !.vm = 1,
                                          !.preInactive = TRUE, !.alone = FALSE]
                      ELSE NoCall]
    /\ ret = AddReturned(1, FALSE)
    /\ cycle = [v \in VMs |-> IF v = 1 THEN [done |-> 0, status |-> "broken"]
                              ELSE [done |-> 2, status |-> "running"]]
    /\ LoopStarts

NextRace ==
    \/ \E t \in Removers : RemoveInstance(t)
    \/ pollingLoop_Select
    \/ pollingLoop_Wait
    \/ pollingLoop_Lookup
    \/ pollingLoop_Read
    \/ pollingLoop_Dispatch
    \/ servePageFault
    \/ \E f \in Fds : Fault(f)

SpecRace == InitRace /\ [][NextRace]_vars

\* NewMemoryManager as it is written, and the calls its caller can make once
\* it has the manager. The epoll set is empty while the loop runs, so the
\* loop's epoll_wait never returns.
NextNew ==
    \/ pollingLoop_Create
    \/ pollingLoop_Select
    \/ NewMemoryManager
    \/ SendQuit
    \/ RegisterVM(Locker)
    \/ AddInstance(Locker)

SpecNew ==
    /\ InitNew /\ [][NextNew]_vars
    /\ WF_vars(pollingLoop_Create \/ pollingLoop_Select)
    /\ WF_vars(NewMemoryManager)

\* RegisterVM and AddInstance when the hypervisor may fail to hand over the fd.
NextUffd ==
    \/ RegisterVM(Locker)
    \/ AddInstance(Locker)
    \/ AddInstance_GetUFFDFail(Locker)
    \/ pollingLoop_Create
    \/ pollingLoop_Select
    \/ NewMemoryManager_Return
    \/ SendQuit

SpecUffd == Init /\ [][NextUffd]_vars

SpecLoop == InitLoop /\ [][NextLoop]_vars /\ WF_vars(pollingLoop) /\ WF_vars(servePageFault)

\* ======================================================================
\* The claims
\* ======================================================================

\* C1: in every reachable state no vmID is a key of both the inactive map
\* and the active vmID->fd map.
C1_InactiveActiveDisjoint ==
    \A v \in VMs : ~(Has(inactive, v) /\ Has(activeVmFd, v))

\* the state that activeFdState holds at the fd activeVmFd gives to v belongs to v
IndexedBothWays(v, f) ==
    /\ Has(activeVmFd, v) /\ activeVmFd[v] = f
    /\ Has(activeFdState, f) /\ heap[activeFdState[f]].vm = v

\* C2: after every manager operation (no call is in progress) the two active
\* indices agree: activeVmFd sends v to f if and only if activeFdState has an
\* entry at f whose state belongs to v.
C2_IndicesAgree ==
    (\A t \in Callers : Idle(t)) =>
        /\ \A v \in DOMAIN activeVmFd : IndexedBothWays(v, activeVmFd[v])
        /\ \A f \in DOMAIN activeFdState : \E v \in VMs : IndexedBothWays(v, f)

\* C3: in every reachable state every fd registered in the epoll set has an
\* entry in the active fd->state map.
C3_EpollFdHasState ==
    \A f \in epollSet : Has(activeFdState, f)

\* caller t returns from a call in this step
Returned(t) == ret'.caller = t

\* C4: RemoveInstance(v) on a vm that RegisterVM(v) then AddInstance(v) made
\* active succeeds, and afterwards v's fd is out of the epoll set, its memory
\* is unmapped, its fd is closed and v is in neither active index; a
\* RemoveInstance(v) of a vm that is not active returns an error.
C4_RemoveOfActivated ==
    [][\A t \in Removers :
         (/\ Returned(t)
          /\ ret'.call.op = "Remove"
          /\ ret'.call.alone
          /\ ret'.res \notin KernelErrors) =>
             /\ (ret'.call.preActive /\ ~ret'.call.preInactive) =>
                    /\ ret'.res = "ok"
                    /\ ret'.call.vm \notin DOMAIN activeVmFd'
                    /\ ret'.call.fd \notin DOMAIN activeFdState'
                    /\ ret'.call.fd \notin epollSet'
                    /\ ret'.call.fd \notin openFds'
                    /\ ~heap'[ret'.call.st].mapped
             /\ ~ret'.call.preActive => ret'.res \in ProtocolErrors
    ]_vars

\* C5: the calls RegisterVM(v); AddInstance(v); RemoveInstance(v);
\* RegisterVM(v); AddInstance(v), made one after the other, all succeed, and
\* after the last one v is active, not inactive, and indexed both ways.
C5_CycleRepeats ==
    \A v \in VMs :
        /\ cycle[v].status # "refused"
        /\ (cycle[v].done = 5 /\ cycle[v].status = "running"
                /\ \A t \in Callers : Idle(t)) =>
               /\ Has(activeVmFd, v) /\ ~Has(inactive, v)
               /\ IndexedBothWays(v, activeVmFd[v])

\* the call of record c breaks the caller protocol
ProtocolViolation(c) ==
    \/ c.op = "Register" /\ (c.preInactive \/ c.preActive)
    \/ c.op = "Add" /\ ~c.preInactive
    \/ c.op = "Remove" /\ ~c.preActive

\* caller t takes a step of a call in this step
StepOf(t) == pc'[t] # pc[t] \/ Returned(t)

\* the call that caller t has in progress, or has just returned from
CallOf(t) == IF Idle(t) THEN ret.call ELSE call[t]

\* C6: a call that breaks the caller protocol (and overlaps no other call)
\* returns a protocol error, and none of its steps changes the inactive map,
\* the active indices or the epoll set.
C6_ViolationLeavesState ==
    [][\A t \in Callers :
         (StepOf(t) /\ CallOf(t)'.alone /\ ProtocolViolation(CallOf(t)')) =>
             /\ inactive' = inactive
             /\ activeVmFd' = activeVmFd
             /\ activeFdState' = activeFdState
             /\ epollSet' = epollSet
             /\ Returned(t) => ret'.res \in ProtocolErrors
    ]_vars

\* a RegisterVM of an active vm, overlapping no other call, has just been refused
C6_Witness ==
    /\ ret.call.op = "Register" /\ ret.call.alone
    /\ ret.call.preActive /\ ~ret.call.preInactive
    /\ ret.res = "AlreadyActive"

\* C7: AddInstance(v) of a vm that is already active returns AlreadyActive,
\* and AddInstance(v) of a vm that was never registered returns NotRegistered.
C7_AddOfActive ==
    /\ (ret.call.op = "Add" /\ ret.call.preActive) => ret.res = "AlreadyActive"
    /\ (ret.call.op = "Add" /\ ~ret.call.preActive /\ ~ret.call.preInactive)
           => ret.res = "NotRegistered"

\* C8: an AddInstance(v) that fails to map guest memory or to obtain the
\* userfault fd returns an error with v still inactive, in neither active
\* index, nothing added to the epoll set and no mapping of v held.
C8_AddFailureKeepsInactive ==
    [][(/\ Returned(Locker)
        /\ ret'.call.op = "Add"
        /\ ret'.call.fail \in {"map", "uffd"}) =>
           /\ ret'.res \in KernelErrors
           /\ ret'.call.vm \in DOMAIN inactive'
           /\ ret'.call.vm \notin DOMAIN activeVmFd'
           /\ \A f \in DOMAIN activeFdState' :
                  activeFdState'[f] # ret'.call.st
           /\ epollSet' = epollSet
           /\ ~heap'[ret'.call.st].mapped
    ]_vars

\* C9: an AddInstance(v) whose epoll-add fails returns an error with v rolled
\* back: no entry in either active index, memory unmapped, userfault fd closed.
C9_EpollAddFailureRollsBack ==
    [][(/\ Returned(Locker)
        /\ ret'.call.op = "Add"
        /\ ret'.res = "EpollError") =>
           /\ ret'.call.vm \notin DOMAIN activeVmFd'
           /\ ret'.call.fd \notin DOMAIN activeFdState'
           /\ ~heap'[ret'.call.st].mapped
           /\ ~heap'[ret'.call.st].open
    ]_vars

\* C10: once the quit signal is delivered to a running loop, the loop
\* eventually exits and closes the epoll handle (unless the process died).
C10_QuitExits ==
    (quit /\ ready) ~> (crashed \/ (loopPc = "exited" /\ epfd = "closed"))

\* the positions from which a caller's next step reads or writes the inactive
\* map or an active index (lines 62-76, 93-114, 139-154, 170-172)
MapPcs == {"idle", "reg72", "add112", "add113", "add114",
           "rem144", "rem150", "rem170", "rem171", "rem172"}

\* C16: no caller reads or writes the inactive map or an active index while
\* another caller holds the manager's mutex.
C16_MapAccessUnderMutex ==
    [][\A t \in Callers :
         (StepOf(t) /\ pc[t] \in MapPcs) => mutex \in {0, t}
    ]_vars

\* C19: a RemoveInstance(v) that fails to unmap guest memory returns the error
\* with v's fd closed and v in neither active index.
C19_UnmapFailureTearsDown ==
    [][\A t \in Removers :
         (/\ Returned(t)
          /\ ret'.call.op = "Remove"
          /\ ret'.res = "UnmapError") =>
             /\ ret'.call.fd \notin openFds'
             /\ ret'.call.vm \notin DOMAIN activeVmFd'
             /\ ret'.call.fd \notin DOMAIN activeFdState'
    ]_vars

\* C18: after epoll_wait returned nevents events, the loop looks up (and then
\* reads and dispatches) only the first nevents slots of the events array.
C18_OnlyReadyEvents ==
    [][(loopPc = "iter" /\ evi <= EventSlots /\ loopPc' # loopPc) => evi <= nevents]_vars

\* task i has computed its install and is about to issue it
Installing(i) == tasks[i].pc = "serve262"

\* C11: two faults in the same guest page of one vm are served with the same
\* dst and the same src, and the src offset into the snapshot mapping is
\* dst - baseGuestAddress.
C11_SamePageSameInstall ==
    \A i, j \in TaskIds :
        (/\ Installing(i) /\ Installing(j)
         /\ tasks[i].fd = tasks[j].fd
         /\ PageOf(tasks[i].address) = PageOf(tasks[j].address)) =>
            /\ tasks[i].dst = tasks[j].dst
            /\ tasks[i].st = tasks[j].st
            /\ tasks[i].offset = tasks[j].offset
            /\ tasks[i].offset = Sub(tasks[i].dst, heap[tasks[i].st].startAddress)

\* C12: every install is for a fault with 0 <= faultAddr - base and
\* (faultAddr - base) + pageSize <= guestMemSize; a fault outside that range
\* ends the process with no install.
C12_InstallInBounds ==
    \A i \in TaskIds :
        Installing(i) =>
            LET off == tasks[i].address - heap[tasks[i].st].startAddress
            IN  0 <= off /\ off + PageSize <= GuestMemSize

\* the loop hands the fault it has read on to a page-service goroutine
Dispatched == loopPc = "dispatch" /\ loopPc' = "iter"

C14_EveryFaultAnswered ==
    /\ loopPc = "fatal" => \A i \in TaskIds : tasks[i] = NoTask
    /\ \A i \in TaskIds :
         Installing(i) =>
             /\ heap[tasks[i].st].open /\ heap[tasks[i].st].fd = tasks[i].fd
             /\ heap[tasks[i].st].mapped

\* C15: when the loop reads a fault from a userfault fd, the install for the
\* fault it read before on that fd has been issued.
C15_SameFdSerialized ==
    [][(loopPc = "read" /\ loopPc' = "dispatch") =>
           \A i \in TaskIds : tasks[i].fd # events[evi]
    ]_vars

\* fd f is open and the guest memory of its state is mapped
FdLive(f) ==
    /\ f \in openFds
    /\ \E s \in StateIds : heap[s].open /\ heap[s].fd = f /\ heap[s].mapped

\* C17: the loop looks up, reads and dispatches an event of a userfault fd, and
\* a page-service goroutine looks up the state of its fd and installs a page,
\* only while RemoveInstance has neither unmapped the memory of that fd's vm
\* nor closed the fd.
C17_NoUseAfterRemove ==
    [][/\ (/\ loopPc \in {"iter", "read", "dispatch"}
           /\ evi <= nevents
           /\ loopPc' \notin {loopPc, "fatal"}) => FdLive(events[evi])
       /\ \A i \in TaskIds :
            (tasks[i] # NoTask /\ tasks'[i] # tasks[i]) => FdLive(tasks[i].fd)
    ]_vars

\* C20: once the loop has raised the ready signal NewMemoryManager returns the
\* manager, with no need of a quit signal.
C20_ReturnsWhenReady ==
    ready ~> (newPc = "returned" \/ quit \/ crashed)

====
